---- MODULE Spec2Model ----
(***************************************************************************)
(* Model of the Emacs-keybindings plugin: the incremental-search session   *)
(* of SearchManager (src/src/search.ts, final version, lines 348-710) and  *)
(* the part of the command dispatch of src/src/main.ts that drives it.     *)
(*                                                                         *)
(* The buffer is a sequence of UTF-16 code units (one-character strings;   *)
(* "NL" is the newline, "Idot" is U+0130, "i" and "dotabove" are U+0069    *)
(* and U+0307).  Offsets are 0-based as in the source; TLA+ sequences are   *)
(* 1-based, so the code unit at offset i is text[i + 1].                   *)
(***************************************************************************)
EXTENDS Integers, Sequences, FiniteSets, TLC

VARIABLES
    text,         \* editor: the buffer content, editor.getValue()
    selection,    \* editor: [anchor, head]; editor.getCursor() is the head
    searchState,  \* SearchManager.searchState
    minibufferEl, \* SearchManager.minibufferEl / inputEl: TRUE while the prompt exists
    inputValue,   \* inputEl.value, the live query
    label,        \* text of the prompt's label span
    decorations,  \* searchHighlightPlugin.decorations
    markPos,      \* MarkManager.markPos
    clipboard,    \* the system clipboard's text
    pending,      \* the kill command suspended at `await navigator.clipboard.writeText`
    lastOp        \* history: the operation that produced this state

vars == <<text, selection, searchState, minibufferEl, inputValue, label,
          decorations, markPos, clipboard, pending, lastOp>>

-----------------------------------------------------------------------------
(* Bounds of the model *)

MaxBufLen == 3
MaxQueryLen == 2

NL == "NL"
BufferChars == {"a", "A", "Idot", NL}
QueryChars == {"a", "A"}

BoundedSeq(S, n) == UNION {[1..k -> S] : k \in 0..n}

Buffers == BoundedSeq(BufferChars, MaxBufLen)

\* buffers and clipboards of the mark engine's specification
MaxMarkBufLen == 3
MarkChars == {"a", "_", NL}
MarkBuffers == BoundedSeq(MarkChars, MaxMarkBufLen)
InitClipboards == {<<>>, <<"a">>, <<NL>>}
Queries == BoundedSeq(QueryChars, MaxQueryLen)
Directions == {"forward", "backward"}

-----------------------------------------------------------------------------
(* Host editor: positions and offsets over the line-oriented buffer *)

NullPos == [line |-> -1, ch |-> -1]

\* no command is suspended at an await
NoPending == [cmd |-> "none", text |-> <<>>, cursor |-> NullPos, end |-> NullPos]

Min(a, b) == IF a < b THEN a ELSE b
Max(a, b) == IF a > b THEN a ELSE b

\* 1-based indices of the newlines of s; the line after a newline at index i
\* starts at offset i
NLIndices(s) == {i \in 1..Len(s) : s[i] = NL}

lineCount(s) == Cardinality(NLIndices(s)) + 1

LineFrom(s, l) ==
    IF l = 0 THEN 0
    ELSE CHOOSE i \in NLIndices(s) : Cardinality({j \in NLIndices(s) : j < i}) = l - 1

LineTo(s, l) == IF l = lineCount(s) - 1 THEN Len(s) ELSE LineFrom(s, l + 1) - 1

LineLength(s, l) == LineTo(s, l) - LineFrom(s, l)

ValidPos(s, p) ==
    /\ p.line \in 0..(lineCount(s) - 1)
    /\ p.ch \in 0..LineLength(s, p.line)

Positions(s) ==
    {[line |-> l, ch |-> c] : l \in 0..Len(s), c \in 0..Len(s)}

ValidPositions(s) == {p \in Positions(s) : ValidPos(s, p)}

\* editor.posToOffset: line and column clamped into the buffer
posToOffset(s, p) ==
    IF p.line < 0 THEN 0
    ELSE IF p.line >= lineCount(s) THEN Len(s)
    ELSE LineFrom(s, p.line) + Max(0, Min(p.ch, LineLength(s, p.line)))

\* editor.offsetToPos: the offset clamped into [0, length]
offsetToPos(s, off) ==
    LET o == Max(0, Min(off, Len(s)))
        l == Cardinality({i \in NLIndices(s) : i <= o})
    IN  [line |-> l, ch |-> o - LineFrom(s, l)]

\* a position as the host resolves it: line and column clamped into the buffer
ClampPos(s, p) == offsetToPos(s, posToOffset(s, p))

setCursor(p) == [anchor |-> p, head |-> p]
setSelection(a, h) == [anchor |-> a, head |-> h]
getCursor == selection.head

-----------------------------------------------------------------------------
(* JavaScript string primitives used by performSearch *)

\* String.prototype.toLowerCase on one code unit: "A" -> "a"; U+0130 -> U+0069
\* U+0307 (two code units); every other code unit of the model is unchanged
LowerOf(c) ==
    CASE c = "A" -> <<"a">>
      [] c = "Idot" -> <<"i", "dotabove">>
      [] OTHER -> <<c>>

RECURSIVE toLowerCase(_)
toLowerCase(str) ==
    IF str = <<>> THEN <<>> ELSE LowerOf(Head(str)) \o toLowerCase(Tail(str))

\* String.prototype.indexOf(needle, from) for a non-empty needle: the least
\* offset >= from at which needle occurs, or -1
indexOf(hay, needle, from) ==
    LET hits == {i \in from..(Len(hay) - Len(needle)) :
                    SubSeq(hay, i + 1, i + Len(needle)) = needle}
    IN  IF hits = {} THEN -1 ELSE CHOOSE i \in hits : \A j \in hits : i <= j

-----------------------------------------------------------------------------
(* SearchManager: pure parts *)

hasUpperCase(str) == str # toLowerCase(str)

\* the while loop of performSearch: push {from: index, to: index + qlen}, index++
RECURSIVE ScanMatches(_, _, _, _)
ScanMatches(hay, needle, index, qlen) ==
    LET found == indexOf(hay, needle, index)
    IN  IF found = -1 THEN <<>>
        ELSE <<[from |-> found, to |-> found + qlen]>>
                 \o ScanMatches(hay, needle, found + 1, qlen)

\* the match list performSearch computes for a non-empty query
FindMatches(content, query) ==
    IF hasUpperCase(query)
    THEN ScanMatches(content, query, 0, Len(query))
    ELSE ScanMatches(toLowerCase(content), toLowerCase(query), 0, Len(query))

\* mutant: the forward scan skips a match that starts exactly at the anchor
RECURSIVE ForwardNearestStrict(_, _, _)
ForwardNearestStrict(matches, startOffset, i) ==
    IF i > Len(matches) THEN 0
    ELSE IF matches[i].from > startOffset THEN i - 1
    ELSE ForwardNearestStrict(matches, startOffset, i + 1)

RECURSIVE ForwardNearest(_, _, _)
ForwardNearest(matches, startOffset, i) ==
    IF i > Len(matches) THEN 0
    ELSE IF matches[i].from >= startOffset THEN i - 1
    ELSE ForwardNearest(matches, startOffset, i + 1)

\* mutant: the backward scan falls back to the first match instead of the last
RECURSIVE BackwardNearestWrapsToTop(_, _, _)
BackwardNearestWrapsToTop(matches, startOffset, i) ==
    IF i < 1 THEN 0
    ELSE IF matches[i].from <= startOffset THEN i - 1
    ELSE BackwardNearestWrapsToTop(matches, startOffset, i - 1)

RECURSIVE BackwardNearest(_, _, _)
BackwardNearest(matches, startOffset, i) ==
    IF i < 1 THEN Len(matches) - 1
    ELSE IF matches[i].from <= startOffset THEN i - 1
    ELSE BackwardNearest(matches, startOffset, i - 1)

findNearestMatch(matches, startOffset, direction) ==
    IF direction = "forward"
    THEN ForwardNearest(matches, startOffset, 1)
    ELSE BackwardNearest(matches, startOffset, Len(matches))

\* the JavaScript remainder a % n for n > 0: it takes the sign of the dividend
JsRem(a, n) == IF a >= 0 THEN a % n ELSE 0 - ((0 - a) % n)

\* mutant: searchNext forward without the wrap-around
NextIndexNoWrap(currentIndex, n, direction) ==
    IF direction = "forward"
    THEN currentIndex + 1
    ELSE JsRem(currentIndex - 1 + n, n)

\* mutant: searchNext backward without adding the match count before the remainder
NextIndexNoAdd(currentIndex, n, direction) ==
    IF direction = "forward"
    THEN JsRem(currentIndex + 1, n)
    ELSE JsRem(currentIndex - 1, n)

\* the index arithmetic of searchNext
NextIndex(currentIndex, n, direction) ==
    IF direction = "forward"
    THEN JsRem(currentIndex + 1, n)
    ELSE JsRem(currentIndex - 1 + n, n)

\* mutant: an empty query empties the match list but keeps currentIndex
ClearedStateKeepsIndex(st) == [st EXCEPT !.matches = <<>>]

\* the fields performSearch clears for an empty query or a closed session
ClearedState(st) == [st EXCEPT !.matches = <<>>, !.currentIndex = -1]

\* the fields startSearch sets
StartedState(direction, cursor) ==
    [active |-> TRUE, direction |-> direction, startPos |-> cursor,
     currentIndex |-> -1, matches |-> <<>>]

\* mutant: exitSearch forgets to empty the match list
ResetStateKeepsMatches(st) ==
    [st EXCEPT !.active = FALSE, !.startPos = NullPos, !.currentIndex = -1]

\* mutant: exitSearch forgets to close the session
ResetStateStaysActive(st) ==
    [st EXCEPT !.startPos = NullPos, !.currentIndex = -1, !.matches = <<>>]

\* the fields exitSearch resets
ResetState(st) ==
    [st EXCEPT !.active = FALSE, !.startPos = NullPos,
               !.currentIndex = -1, !.matches = <<>>]

\* searchHighlightPlugin.buildDecorations over the state field, which holds the
\* very object SearchManager mutates
buildDecorations(st) ==
    IF ~st.active \/ Len(st.matches) = 0 THEN <<>>
    ELSE [i \in 1..Len(st.matches) |->
            [from |-> st.matches[i].from, to |-> st.matches[i].to,
             class |-> IF i - 1 = st.currentIndex
                       THEN "search-highlight-current" ELSE "search-highlight"]]

\* matches[currentIndex] is undefined: reading its fields throws a TypeError,
\* which ends the running handler where it stands
CurrentMatchMissing(st) ==
    /\ st.currentIndex # -1
    /\ st.currentIndex \notin 0..(Len(st.matches) - 1)

\* moveToCurrentMatch: the selection it leaves
moveToCurrentMatch(st, sel) ==
    IF st.currentIndex = -1 \/ CurrentMatchMissing(st) THEN sel
    ELSE setSelection(offsetToPos(text, st.matches[st.currentIndex + 1].from),
                      offsetToPos(text, st.matches[st.currentIndex + 1].to))

DirectionLabel(direction) ==
    IF direction = "forward" THEN "I-search:" ELSE "I-search backward:"

\* mutant: accepting leaves the cursor at the start of the current match
ExitSelectionAtMatchStart(st, sel, restore) ==
    IF restore /\ st.startPos # NullPos THEN setCursor(ClampPos(text, st.startPos))
    ELSE IF ~restore /\ st.currentIndex # -1
         THEN setCursor(offsetToPos(text, st.matches[st.currentIndex + 1].from))
         ELSE sel

\* exitSearch: where it leaves the cursor
ExitSelection(st, sel, restore) ==
    IF restore /\ st.startPos # NullPos THEN setCursor(ClampPos(text, st.startPos))
    ELSE IF ~restore /\ st.currentIndex # -1
         THEN setCursor(offsetToPos(text, st.matches[st.currentIndex + 1].to))
         ELSE sel

\* updateEditorState after moveToCurrentMatch: the dispatch is skipped when
\* moveToCurrentMatch threw
DecorationsAfter(st) ==
    IF CurrentMatchMissing(st) THEN decorations ELSE buildDecorations(st)

\* updateLabel: only a prompt that exists has a label to change
updateLabel(str) == IF minibufferEl THEN str ELSE label

-----------------------------------------------------------------------------
(* Initial state: a freshly loaded plugin over any bounded buffer and cursor *)

IdleState ==
    [active |-> FALSE, direction |-> "forward", startPos |-> NullPos,
     currentIndex |-> -1, matches |-> <<>>]

Op(name, arg) == [name |-> name, arg |-> arg]

Init ==
    /\ text \in Buffers
    /\ \E p \in ValidPositions(text) : selection = setCursor(p)
    /\ searchState = IdleState
    /\ minibufferEl = FALSE
    /\ inputValue = <<>>
    /\ label = ""
    /\ decorations = <<>>
    /\ markPos = NullPos
    /\ clipboard = <<>>
    /\ pending = NoPending
    /\ lastOp = Op("init", "none")

-----------------------------------------------------------------------------
(* Operations *)

\* a startSearch that also drops the mark
StartSearchClearsMark(direction) ==
    /\ ~searchState.active
    /\ searchState' = StartedState(direction, getCursor)
    /\ decorations' = buildDecorations(searchState')
    /\ minibufferEl' = TRUE
    /\ inputValue' = <<>>
    /\ label' = DirectionLabel(direction)
    /\ markPos' = NullPos
    /\ lastOp' = Op("startSearch", direction)
    /\ UNCHANGED <<text, selection, clipboard, pending>>

\* startSearch, reached from isearch-forward / isearch-backward only while no
\* session is active (main.ts gates it with isSearchActive)
StartSearch(direction) ==
    /\ ~searchState.active
    /\ searchState' = StartedState(direction, getCursor)
    /\ decorations' = buildDecorations(searchState')
    /\ minibufferEl' = TRUE
    /\ inputValue' = <<>>
    /\ label' = DirectionLabel(direction)
    /\ lastOp' = Op("startSearch", direction)
    /\ UNCHANGED <<text, selection, markPos, clipboard, pending>>

\* performSearch(editor, query), without the history variable
DoPerformSearch(query) ==
    /\ IF query = <<>> \/ searchState.startPos = NullPos
       THEN /\ searchState' = ClearedState(searchState)
            /\ selection' = IF searchState.startPos # NullPos
                            THEN setCursor(ClampPos(text, searchState.startPos))
                            ELSE selection
            /\ label' = label
       ELSE LET matches == FindMatches(text, query)
                st1 == [searchState EXCEPT !.matches = matches]
            IN  IF Len(matches) > 0
                THEN LET startOffset == posToOffset(text, searchState.startPos)
                         st2 == [st1 EXCEPT !.currentIndex =
                                    findNearestMatch(matches, startOffset,
                                                     searchState.direction)]
                     IN  /\ searchState' = st2
                         /\ selection' = moveToCurrentMatch(st2, selection)
                         /\ label' = label
                ELSE /\ searchState' = [st1 EXCEPT !.currentIndex = -1]
                     /\ selection' = selection
                     /\ label' = updateLabel("(failed) I-search:")
    /\ decorations' = DecorationsAfter(searchState')

\* the prompt's 'input' event: the live query becomes q and performSearch runs.
\* With no prompt (no session) only performSearch's own guard is exercised.
OnQueryChanged(q) ==
    /\ q # inputValue \/ ~minibufferEl
    /\ DoPerformSearch(q)
    /\ inputValue' = IF minibufferEl THEN q ELSE inputValue
    /\ lastOp' = Op("onQueryChanged", "none")
    /\ UNCHANGED <<text, minibufferEl, markPos, clipboard, pending>>

\* a searchNext that takes over the direction it is called with
SearchNextReanchors(direction) ==
    /\ IF ~searchState.active \/ Len(searchState.matches) = 0
       THEN UNCHANGED <<searchState, selection, decorations>>
       ELSE /\ searchState' =
                 [searchState EXCEPT !.direction = direction,
                                     !.currentIndex =
                     NextIndex(searchState.currentIndex,
                               Len(searchState.matches), direction)]
            /\ selection' = moveToCurrentMatch(searchState', selection)
            /\ decorations' = DecorationsAfter(searchState')
    /\ lastOp' = Op("searchNext", direction)
    /\ UNCHANGED <<text, minibufferEl, inputValue, label, markPos, clipboard, pending>>

\* a searchNext that forgets to signal the highlight layer
SearchNextNoDispatch(direction) ==
    /\ IF ~searchState.active \/ Len(searchState.matches) = 0
       THEN UNCHANGED <<searchState, selection>>
       ELSE /\ searchState' =
                 [searchState EXCEPT !.currentIndex =
                     NextIndex(searchState.currentIndex,
                               Len(searchState.matches), direction)]
            /\ selection' = moveToCurrentMatch(searchState', selection)
    /\ decorations' = decorations
    /\ lastOp' = Op("searchNext", direction)
    /\ UNCHANGED <<text, minibufferEl, inputValue, label, markPos, clipboard, pending>>

\* searchNext(editor, direction)
SearchNext(direction) ==
    /\ IF ~searchState.active \/ Len(searchState.matches) = 0
       THEN UNCHANGED <<searchState, selection, decorations>>
       ELSE /\ searchState' =
                 [searchState EXCEPT !.currentIndex =
                     NextIndex(searchState.currentIndex,
                               Len(searchState.matches), direction)]
            /\ selection' = moveToCurrentMatch(searchState', selection)
            /\ decorations' = DecorationsAfter(searchState')
    /\ lastOp' = Op("searchNext", direction)
    /\ UNCHANGED <<text, minibufferEl, inputValue, label, markPos, clipboard, pending>>

\* exitSearch(editor, restore), without the history variable
DoExitSearch(restore) ==
    IF ~restore /\ CurrentMatchMissing(searchState)
    THEN \* match.to throws before anything is reset
         UNCHANGED <<text, selection, searchState, minibufferEl, inputValue,
                     label, decorations, markPos, clipboard, pending>>
    ELSE /\ selection' = ExitSelection(searchState, selection, restore)
         /\ searchState' = ResetState(searchState)
         /\ decorations' = buildDecorations(searchState')
         /\ minibufferEl' = FALSE
         /\ inputValue' = <<>>
         /\ label' = ""
         /\ UNCHANGED <<text, markPos, clipboard, pending>>

\* the prompt's 'keydown' handler: Escape restores, Enter accepts
KeydownEscape ==
    /\ minibufferEl
    /\ DoExitSearch(TRUE)
    /\ lastOp' = Op("exitSearch", "restore")

KeydownEnter ==
    /\ minibufferEl
    /\ DoExitSearch(FALSE)
    /\ lastOp' = Op("exitSearch", "accept")

\* cancelSearch(editor)
CancelSearch ==
    /\ IF ~searchState.active
       THEN UNCHANGED <<text, selection, searchState, minibufferEl, inputValue,
                        label, decorations, markPos, clipboard, pending>>
       ELSE DoExitSearch(TRUE)
    /\ lastOp' = Op("cancelSearch", "none")

\* MarkManager.clearMark(editor)
\* a clearMark that forgets to collapse the selection
ClearMarkKeepsSelection ==
    /\ markPos' = NullPos
    /\ selection' = selection
    /\ lastOp' = Op("clearMark", "none")
    /\ UNCHANGED <<text, searchState, minibufferEl, inputValue, label, decorations,
                   clipboard, pending>>

ClearMark ==
    /\ markPos' = NullPos
    /\ selection' = setCursor(getCursor)
    /\ lastOp' = Op("clearMark", "none")
    /\ UNCHANGED <<text, searchState, minibufferEl, inputValue, label, decorations,
                   clipboard, pending>>

\* a keyboard-quit that clears the mark whatever the state of the search
KeyboardQuitIgnoresSearch == ClearMark

\* the keyboard-quit command of main.ts
KeyboardQuit ==
    IF searchState.active THEN CancelSearch ELSE ClearMark

Next ==
    \/ \E d \in Directions : StartSearch(d)
    \/ \E q \in Queries : OnQueryChanged(q)
    \/ \E d \in Directions : SearchNext(d)
    \/ KeydownEscape
    \/ KeydownEnter
    \/ CancelSearch
    \/ KeyboardQuit

Spec == Init /\ [][Next]_vars

-----------------------------------------------------------------------------
(* Claims about the search session *)

\* C1: whenever the session is not active, its match list is empty, its
\* currentIndex is -1 and its anchor (startPos) is null.
C1_InactiveIsEmpty ==
    ~searchState.active =>
        /\ searchState.matches = <<>>
        /\ searchState.currentIndex = -1
        /\ searchState.startPos = NullPos

\* a session was accepted with Enter and is closed again
C1_Witness ==
    /\ ~searchState.active
    /\ lastOp = Op("exitSearch", "accept")

\* C2: currentIndex is -1 or a valid 0-based index into matches.
C2_IndexInRange ==
    \/ searchState.currentIndex = -1
    \/ searchState.currentIndex \in 0..(Len(searchState.matches) - 1)

\* searchNext backward has wrapped from the first match to the last one
C2_Witness ==
    /\ searchState.active
    /\ lastOp = Op("searchNext", "backward")
    /\ Len(searchState.matches) >= 2
    /\ searchState.currentIndex = Len(searchState.matches) - 1

\* C3: the session goes Idle -> Searching only by startSearch, stays Searching
\* over onQueryChanged and searchNext, goes Searching -> Idle by exitSearch or
\* cancelSearch (and only by them); while Idle, searchNext, cancelSearch and a
\* query change leave the session fields and the selection (cursor) unchanged.
C3_StateMachine ==
    [][ /\ (~searchState.active /\ searchState'.active)
            => lastOp'.name = "startSearch"
        /\ (searchState.active /\ ~searchState'.active)
            => lastOp'.name \in {"exitSearch", "cancelSearch"}
        /\ lastOp'.name = "startSearch"
            => (~searchState.active /\ searchState'.active)
        /\ (searchState.active /\ lastOp'.name \in {"onQueryChanged", "searchNext"})
            => searchState'.active
        /\ (searchState.active /\ lastOp'.name \in {"exitSearch", "cancelSearch"})
            => ~searchState'.active
        /\ (~searchState.active
              /\ lastOp'.name \in {"searchNext", "cancelSearch", "onQueryChanged"})
            => UNCHANGED <<searchState, selection>>
      ]_vars

\* searchNext was called while no session was open, over a non-collapsed
\* selection left by an accepted failing query
C3_Witness ==
    /\ ~searchState.active
    /\ lastOp.name = "searchNext"
    /\ selection.anchor # selection.head

\* two code units are equal ignoring case
SameIgnoringCase(c, d) == LowerOf(c) = LowerOf(d)

\* the query occurs in the buffer at offset i, compared exactly
OccursExactly(content, query, i) ==
    /\ i + Len(query) <= Len(content)
    /\ \A k \in 1..Len(query) : content[i + k] = query[k]

\* the query occurs in the buffer at offset i, compared ignoring case
OccursIgnoringCase(content, query, i) ==
    /\ i + Len(query) <= Len(content)
    /\ \A k \in 1..Len(query) : SameIgnoringCase(content[i + k], query[k])

ContainsUpperCase(query) == \E k \in 1..Len(query) : LowerOf(query[k]) # <<query[k]>>

\* the start offsets at which the live query occurs under the smart-case policy
SmartCaseOccurrences(content, query) ==
    {i \in 0..Len(content) :
        IF ContainsUpperCase(query)
        THEN OccursExactly(content, query, i)
        ELSE OccursIgnoringCase(content, query, i)}

MatchSet(matches) == {matches[i] : i \in 1..Len(matches)}

AfterQuery ==
    /\ searchState.active
    /\ lastOp.name = "onQueryChanged"
    /\ inputValue # <<>>

\* C4: smart case.  After a non-empty query the match set is exactly the
\* case-sensitive occurrences of the query when it contains an uppercase
\* character, and exactly the occurrences equal to it ignoring case when it
\* is all lowercase.
C4_SmartCase ==
    AfterQuery =>
        MatchSet(searchState.matches) =
            {[from |-> i, to |-> i + Len(inputValue)] :
                i \in SmartCaseOccurrences(text, inputValue)}

\* C5: after a non-empty query, matches lists every start offset at which the
\* query occurs (overlapping occurrences included) once, as
\* (from, from + length of query), in strictly ascending order of from.
C5_AllOccurrencesAscending ==
    AfterQuery =>
        /\ {searchState.matches[i].from : i \in 1..Len(searchState.matches)}
              = SmartCaseOccurrences(text, inputValue)
        /\ \A i \in 1..Len(searchState.matches) :
              searchState.matches[i].to
                  = searchState.matches[i].from + Len(inputValue)
        /\ \A i \in 1..(Len(searchState.matches) - 1) :
              searchState.matches[i].from < searchState.matches[i + 1].from

AnchorOffset == posToOffset(text, searchState.startPos)

\* indices (1-based) of the matches that start at or after / at or before the anchor
AtOrAfterAnchor == {i \in 1..Len(searchState.matches) :
                        searchState.matches[i].from >= AnchorOffset}
AtOrBeforeAnchor == {i \in 1..Len(searchState.matches) :
                        searchState.matches[i].from <= AnchorOffset}

QueryFoundMatches ==
    /\ searchState.active
    /\ lastOp.name = "onQueryChanged"
    /\ Len(searchState.matches) > 0

\* C6: in a forward session, after a query that has matches, currentIndex is the
\* first match starting at or after the anchor's offset, and 0 when there is none.
C6_NearestForward ==
    (QueryFoundMatches /\ searchState.direction = "forward") =>
        IF AtOrAfterAnchor = {}
        THEN searchState.currentIndex = 0
        ELSE /\ searchState.currentIndex + 1 \in AtOrAfterAnchor
             /\ \A j \in AtOrAfterAnchor : searchState.currentIndex + 1 <= j

\* a forward query chose the second match because the first lies before the anchor
C6_Witness ==
    /\ QueryFoundMatches /\ searchState.direction = "forward"
    /\ searchState.currentIndex = 1
    /\ searchState.matches[1].from < AnchorOffset
    /\ searchState.matches[2].from >= AnchorOffset

\* a forward query wrapped to the top: every match lies before the anchor
C6_WitnessWrap ==
    /\ QueryFoundMatches /\ searchState.direction = "forward"
    /\ AtOrAfterAnchor = {}
    /\ searchState.currentIndex = 0

\* C7: in a backward session, after a query that has matches, currentIndex is the
\* last match starting at or before the anchor's offset, and the last index when
\* there is none.
C7_NearestBackward ==
    (QueryFoundMatches /\ searchState.direction = "backward") =>
        IF AtOrBeforeAnchor = {}
        THEN searchState.currentIndex = Len(searchState.matches) - 1
        ELSE /\ searchState.currentIndex + 1 \in AtOrBeforeAnchor
             /\ \A j \in AtOrBeforeAnchor : searchState.currentIndex + 1 >= j

\* a backward query wrapped to the bottom: two matches, both after the anchor
C7_Witness ==
    /\ QueryFoundMatches /\ searchState.direction = "backward"
    /\ Len(searchState.matches) >= 2
    /\ AtOrBeforeAnchor = {}
    /\ searchState.currentIndex = Len(searchState.matches) - 1

\* NextIndex applied k times
RECURSIVE IterateNext(_, _, _, _)
IterateNext(currentIndex, n, direction, k) ==
    IF k = 0 THEN currentIndex
    ELSE IterateNext(NextIndex(currentIndex, n, direction), n, direction, k - 1)

SelectionOfMatch(m) ==
    setSelection(offsetToPos(text, m.from), offsetToPos(text, m.to))

\* C8: in an active session with N >= 1 matches, searchNext(forward) sets
\* currentIndex to (currentIndex + 1) mod N and searchNext(backward) to
\* (currentIndex - 1) mod N, the selection becomes the match at the new
\* currentIndex, and N calls in one direction lead back to the original index.
C8_CyclicNext ==
    /\ [][ (searchState.active /\ Len(searchState.matches) >= 1
              /\ lastOp'.name = "searchNext")
           => LET n == Len(searchState.matches)
                  step == IF lastOp'.arg = "forward" THEN 1 ELSE -1
              IN  /\ searchState'.currentIndex
                        = (searchState.currentIndex + step) % n
                  /\ searchState'.matches = searchState.matches
                  /\ selection' = SelectionOfMatch(
                        searchState'.matches[searchState'.currentIndex + 1])
         ]_vars
    /\ [](  (searchState.active /\ Len(searchState.matches) >= 1)
            => \A d \in Directions :
                 IterateNext(searchState.currentIndex, Len(searchState.matches),
                             d, Len(searchState.matches))
                    = searchState.currentIndex )

\* searchNext forward has wrapped from the last of three matches to the first
C8_Witness ==
    /\ searchState.active
    /\ lastOp = Op("searchNext", "forward")
    /\ Len(searchState.matches) = 3
    /\ searchState.currentIndex = 0
    /\ selection = SelectionOfMatch(searchState.matches[1])

ExitStep == lastOp'.name = "exitSearch" \/ (lastOp'.name = "cancelSearch" /\ searchState.active)

CancelStep ==
    \/ lastOp' = Op("exitSearch", "restore")
    \/ (lastOp'.name = "cancelSearch" /\ searchState.active)

AcceptStep == lastOp' = Op("exitSearch", "accept")

\* where exitSearch must leave the cursor
ExitCursorRule ==
    /\ lastOp'.name = "startSearch" => searchState'.startPos = selection.head
    /\ CancelStep => selection' = setCursor(searchState.startPos)
    /\ (AcceptStep /\ searchState.currentIndex # -1)
          => selection' = setCursor(offsetToPos(text,
                searchState.matches[searchState.currentIndex + 1].to))
    /\ (AcceptStep /\ searchState.currentIndex = -1) => selection' = selection

\* C9 as stated: cancel restores the cursor to the anchor recorded at
\* startSearch; accept leaves it at the end of the current match, or unmoved
\* when there is none; either way the session ends Idle with all of its fields
\* reset, that is, equal to a freshly constructed session.
C9_ExitResetsAllFields ==
    [][ /\ ExitCursorRule
        /\ ExitStep => searchState' = IdleState
      ]_vars

\* C9 as amended: as above, but the reset covers active, startPos, currentIndex
\* and matches; direction keeps the value of the session that ended.
C9_ExitSearch ==
    [][ /\ ExitCursorRule
        /\ ExitStep => /\ ~searchState'.active
                       /\ searchState'.startPos = NullPos
                       /\ searchState'.currentIndex = -1
                       /\ searchState'.matches = <<>>
                       /\ searchState'.direction = searchState.direction
                       /\ ~minibufferEl'
      ]_vars

\* a backward session was accepted on a match: the cursor sits at the end of
\* that match, away from where it would be after a cancel
C9_Witness ==
    /\ ~searchState.active
    /\ lastOp = Op("exitSearch", "accept")
    /\ searchState.direction = "backward"
    /\ selection.anchor = selection.head
    /\ selection.head = [line |-> 1, ch |-> 1]

\* C10: an empty query in an active session empties the match list, sets
\* currentIndex to -1, collapses the selection onto the anchor and leaves no
\* highlight.
C10_EmptyQuery ==
    (searchState.active /\ lastOp.name = "onQueryChanged" /\ inputValue = <<>>)
        => /\ searchState.matches = <<>>
           /\ searchState.currentIndex = -1
           /\ selection = setCursor(searchState.startPos)
           /\ decorations = <<>>

\* the query was emptied in an open session
C10_Witness ==
    /\ searchState.active
    /\ lastOp.name = "onQueryChanged"
    /\ inputValue = <<>>
    /\ searchState.startPos # [line |-> 0, ch |-> 0]

-----------------------------------------------------------------------------
(* Host editor: reading and replacing ranges of the buffer *)

\* editor.getLine(n): the text of line n, without its newline
getLine(s, l) == SubSeq(s, LineFrom(s, l) + 1, LineTo(s, l))

\* editor.getRange(from, to): the two ends are put in order by the host
getRange(s, a, b) ==
    LET x == posToOffset(s, a)
        y == posToOffset(s, b)
    IN  SubSeq(s, Min(x, y) + 1, Max(x, y))

\* the buffer after the offsets lo..hi are replaced by ins
Splice(s, lo, hi, ins) == SubSeq(s, 1, lo) \o ins \o SubSeq(s, hi + 1, Len(s))

\* editor.replaceRange(ins, from, to): the buffer it leaves
replaceRange(s, ins, a, b) ==
    LET x == posToOffset(s, a)
        y == posToOffset(s, b)
    IN  Splice(s, Min(x, y), Max(x, y), ins)

\* an offset of the old buffer carried over a replacement of lo..hi by n code units
MapOffset(o, lo, hi, n) ==
    IF o <= lo THEN o
    ELSE IF o >= hi THEN o - (hi - lo) + n
    ELSE lo

\* the selection after editor.replaceRange('', from, to): both ends are carried
\* over the deletion
SelectionAfterDelete(s, sel, a, b) ==
    LET x == posToOffset(s, a)
        y == posToOffset(s, b)
        lo == Min(x, y)
        hi == Max(x, y)
        t == Splice(s, lo, hi, <<>>)
    IN  setSelection(offsetToPos(t, MapOffset(posToOffset(s, sel.anchor), lo, hi, 0)),
                     offsetToPos(t, MapOffset(posToOffset(s, sel.head), lo, hi, 0)))

\* editor.replaceSelection(ins): the buffer it leaves
replaceSelection(s, sel, ins) ==
    LET x == posToOffset(s, sel.anchor)
        y == posToOffset(s, sel.head)
    IN  Splice(s, Min(x, y), Max(x, y), ins)

\* editor.replaceSelection(ins): the cursor ends after the inserted text
SelectionAfterReplace(s, sel, ins) ==
    LET x == posToOffset(s, sel.anchor)
        y == posToOffset(s, sel.head)
        t == Splice(s, Min(x, y), Max(x, y), ins)
    IN  setCursor(offsetToPos(t, Min(x, y) + Len(ins)))

-----------------------------------------------------------------------------
(* MarkManager: word scanning with the patterns /[\s_]+/g and /[^\s_]+/g *)

\* the code units of the model that [\s_] matches
BoundaryChars == {" ", "_", NL}

InClass(c, boundary) == (c \in BoundaryChars) = boundary

NoMatch == [found |-> FALSE, index |-> 0, length |-> 0]

\* RegExp.prototype.exec of a one-class pattern with the g flag: the first
\* maximal run of the class at or after lastIndex (0-based index)
ExecRun(str, lastIndex, boundary) ==
    LET starts == {i \in lastIndex..(Len(str) - 1) : InClass(str[i + 1], boundary)}
    IN  IF starts = {} THEN NoMatch
        ELSE LET i == CHOOSE k \in starts : \A j \in starts : k <= j
                 lens == {n \in 1..(Len(str) - i) :
                            \A k \in 1..n : InClass(str[i + k], boundary)}
                 n == CHOOSE m \in lens : \A j \in lens : m >= j
             IN  [found |-> TRUE, index |-> i, length |-> n]

\* a word match that stops after the first character of the word
NextWordMatchFirstChar(restOfLine) ==
    LET skipMatch == ExecRun(restOfLine, 0, TRUE)
        searchStart == IF skipMatch.found /\ skipMatch.index = 0
                       THEN skipMatch.length ELSE 0
        match == ExecRun(restOfLine, searchStart, FALSE)
    IN  [match EXCEPT !.length = IF match.found THEN 1 ELSE 0]

\* the match of the word pattern in the rest of a line, after leading delimiters
NextWordMatch(restOfLine) ==
    LET skipMatch == ExecRun(restOfLine, 0, TRUE)
        searchStart == IF skipMatch.found /\ skipMatch.index = 0
                       THEN skipMatch.length ELSE 0
    IN  ExecRun(restOfLine, searchStart, FALSE)

\* the while loop collecting every word of a string
RECURSIVE AllWords(_, _)
AllWords(str, lastIndex) ==
    LET m == ExecRun(str, lastIndex, FALSE)
    IN  IF ~m.found THEN <<>>
        ELSE <<m>> \o AllWords(str, m.index + m.length)

\* forwardWord from cursor: whether moveCursor was called, and the last position
\* it was called with (each recursive call first moves to the next line's start)
RECURSIVE ForwardWordFrom(_, _, _)
ForwardWordFrom(s, cursor, moved) ==
    LET line == getLine(s, cursor.line)
        restOfLine == SubSeq(line, cursor.ch + 1, Len(line))
        match == NextWordMatch(restOfLine)
    IN  IF match.found
        THEN [moved |-> TRUE,
              pos |-> [line |-> cursor.line,
                       ch |-> cursor.ch + match.index + match.length]]
        ELSE IF cursor.line < lineCount(s) - 1
        THEN ForwardWordFrom(s, [line |-> cursor.line + 1, ch |-> 0], TRUE)
        ELSE [moved |-> moved, pos |-> cursor]

\* a backwardWord that goes to the start of the line
BackwardWordFromLineStart(s, cursor, moved) ==
    [moved |-> TRUE, pos |-> [line |-> cursor.line, ch |-> 0]]

\* a backwardWord that does nothing when the line has no word before the cursor
BackwardWordFromAbsorbed(s, cursor, moved) ==
    LET words == AllWords(SubSeq(getLine(s, cursor.line), 1, cursor.ch), 0)
    IN  IF Len(words) > 0
        THEN [moved |-> TRUE,
              pos |-> [line |-> cursor.line, ch |-> words[Len(words)].index]]
        ELSE [moved |-> moved, pos |-> cursor]

\* backwardWord from cursor, likewise
RECURSIVE BackwardWordFrom(_, _, _)
BackwardWordFrom(s, cursor, moved) ==
    LET line == getLine(s, cursor.line)
        beforeCursor == SubSeq(line, 1, cursor.ch)
        words == AllWords(beforeCursor, 0)
    IN  IF Len(words) > 0
        THEN LET lastWord == words[Len(words)]
                 lastWordEnd == lastWord.index + lastWord.length
             IN  IF cursor.ch > lastWordEnd
                 THEN [moved |-> TRUE,
                       pos |-> [line |-> cursor.line, ch |-> lastWord.index]]
                 ELSE IF cursor.ch = lastWord.index /\ Len(words) > 1
                 THEN [moved |-> TRUE,
                       pos |-> [line |-> cursor.line,
                                ch |-> words[Len(words) - 1].index]]
                 ELSE [moved |-> TRUE,
                       pos |-> [line |-> cursor.line, ch |-> lastWord.index]]
        ELSE IF cursor.line > 0
        THEN BackwardWordFrom(s,
                 [line |-> cursor.line - 1,
                  ch |-> LineLength(s, cursor.line - 1)], TRUE)
        ELSE [moved |-> moved, pos |-> cursor]

-----------------------------------------------------------------------------
(* MarkManager: operations *)

\* setMark: the mark it leaves (set when there was none, cleared otherwise)
SetMarkResult(mark, cursor) == IF mark # NullPos THEN NullPos ELSE cursor

\* a moveCursor that extends the selection whether or not the mark is set
moveCursorExtending(newPos) == setSelection(selection.anchor, newPos)

\* moveCursor(editor, newPos): the selection it leaves
moveCursor(newPos) ==
    IF markPos # NullPos
    THEN setSelection(ClampPos(text, markPos), newPos)
    ELSE setCursor(newPos)

\* the line and character deltas main.ts gives the four movement commands
MovementCommands == {"forward-char", "backward-char", "next-line", "previous-line"}

LineDelta(cmd) ==
    CASE cmd = "next-line" -> 1 [] cmd = "previous-line" -> -1 [] OTHER -> 0

ChDelta(cmd) ==
    CASE cmd = "forward-char" -> 1 [] cmd = "backward-char" -> -1 [] OTHER -> 0

\* a moveByOffset that goes to the start of the line at a buffer edge
MoveByOffsetTargetToLineStart(s, cursor, lineDelta, chDelta) ==
    LET newLine == cursor.line + lineDelta
        newCh == cursor.ch + chDelta
    IN  IF newLine < 0 \/ newLine >= lineCount(s)
        THEN [moved |-> TRUE, pos |-> [line |-> cursor.line, ch |-> 0]]
        ELSE [moved |-> TRUE,
              pos |-> [line |-> newLine,
                       ch |-> Max(0, Min(newCh, LineLength(s, newLine)))]]

\* moveByOffset: whether it moves, and where to
MoveByOffsetTarget(s, cursor, lineDelta, chDelta) ==
    LET newLine == cursor.line + lineDelta
        newCh == cursor.ch + chDelta
    IN  IF newLine < 0 \/ newLine >= lineCount(s)
        THEN [moved |-> FALSE, pos |-> cursor]
        ELSE [moved |-> TRUE,
              pos |-> [line |-> newLine,
                       ch |-> Max(0, Min(newCh, LineLength(s, newLine)))]]

LinePositionTarget(s, cursor, position) ==
    [line |-> cursor.line,
     ch |-> IF position = "beginning" THEN 0 ELSE LineLength(s, cursor.line)]

BufferPositionTarget(s, position) ==
    IF position = "beginning" THEN [line |-> 0, ch |-> 0]
    ELSE [line |-> lineCount(s) - 1, ch |-> LineLength(s, lineCount(s) - 1)]

\* a killLine that takes the newline together with the rest of the line
KillLineSpanWithNewline(s, cursor) ==
    LET line == getLine(s, cursor.line)
        restOfLine == SubSeq(line, cursor.ch + 1, Len(line))
    IN  IF cursor.line < lineCount(s) - 1
        THEN [kill |-> TRUE, end |-> [line |-> cursor.line + 1, ch |-> 0],
              copied |-> restOfLine \o <<NL>>]
        ELSE IF Len(restOfLine) = 0
        THEN [kill |-> FALSE, end |-> cursor, copied |-> <<>>]
        ELSE [kill |-> TRUE, end |-> [line |-> cursor.line, ch |-> Len(line)],
              copied |-> restOfLine]

\* a killLine that does nothing at the end of a line
KillLineSpanNoJoin(s, cursor) ==
    LET line == getLine(s, cursor.line)
        restOfLine == SubSeq(line, cursor.ch + 1, Len(line))
    IN  IF Len(restOfLine) = 0
        THEN [kill |-> FALSE, end |-> cursor, copied |-> <<>>]
        ELSE [kill |-> TRUE, end |-> [line |-> cursor.line, ch |-> Len(line)],
              copied |-> restOfLine]

\* killLine: whether it kills, up to where, and the text it copies
KillLineSpan(s, cursor) ==
    LET line == getLine(s, cursor.line)
        restOfLine == SubSeq(line, cursor.ch + 1, Len(line))
    IN  IF Len(restOfLine) = 0
        THEN IF cursor.line < lineCount(s) - 1
             THEN [kill |-> TRUE, end |-> [line |-> cursor.line + 1, ch |-> 0],
                   copied |-> <<NL>>]
             ELSE [kill |-> FALSE, end |-> cursor, copied |-> <<>>]
        ELSE [kill |-> TRUE, end |-> [line |-> cursor.line, ch |-> Len(line)],
              copied |-> restOfLine]

\* killWord: whether it kills, and up to where (the next line is looked at
\* once, without recursion)
KillWordSpan(s, startCursor) ==
    LET line == getLine(s, startCursor.line)
        restOfLine == SubSeq(line, startCursor.ch + 1, Len(line))
        match == NextWordMatch(restOfLine)
    IN  IF match.found
        THEN [kill |-> TRUE,
              end |-> [line |-> startCursor.line,
                       ch |-> startCursor.ch + match.index + match.length]]
        ELSE IF startCursor.line < lineCount(s) - 1
        THEN LET nextMatch == NextWordMatch(getLine(s, startCursor.line + 1))
             IN  [kill |-> TRUE,
                  end |-> [line |-> startCursor.line + 1,
                           ch |-> IF nextMatch.found
                                  THEN nextMatch.index + nextMatch.length
                                  ELSE 0]]
        ELSE [kill |-> FALSE, end |-> startCursor]

\* backwardKillWord: whether it kills, and from where (the previous line is
\* looked at once, without recursion)
BackwardKillWordSpan(s, endCursor) ==
    LET line == getLine(s, endCursor.line)
        beforeCursor == SubSeq(line, 1, endCursor.ch)
        words == AllWords(beforeCursor, 0)
    IN  IF Len(words) > 0
        THEN LET lastWord == words[Len(words)]
                 lastWordEnd == lastWord.index + lastWord.length
             IN  [kill |-> TRUE,
                  start |-> [line |-> endCursor.line,
                             ch |-> IF endCursor.ch > lastWordEnd
                                    THEN lastWord.index
                                    ELSE IF endCursor.ch = lastWord.index
                                            /\ Len(words) > 1
                                    THEN words[Len(words) - 1].index
                                    ELSE lastWord.index]]
        ELSE IF endCursor.line > 0
        THEN LET prevWords == AllWords(getLine(s, endCursor.line - 1), 0)
             IN  [kill |-> TRUE,
                  start |-> [line |-> endCursor.line - 1,
                             ch |-> IF Len(prevWords) > 0
                                    THEN prevWords[Len(prevWords)].index
                                    ELSE 0]]
        ELSE [kill |-> FALSE, start |-> endCursor]

\* what every operation of the mark engine leaves alone: the search session,
\* and the clipboard request in flight when the operation is taken as one step
SearchUnchanged ==
    UNCHANGED <<searchState, minibufferEl, inputValue, label, decorations, pending>>

\* a command that ended without touching anything
Untouched == UNCHANGED <<text, selection, markPos, clipboard>>

SetMark ==
    /\ markPos' = SetMarkResult(markPos, getCursor)
    /\ selection' = IF markPos' = NullPos THEN setCursor(getCursor) ELSE selection
    /\ lastOp' = Op("setMark", "none")
    /\ UNCHANGED <<text, clipboard>>
    /\ SearchUnchanged

\* a movement: moveCursor is called with r.pos when r.moved
Move(r) ==
    /\ selection' = IF r.moved THEN moveCursor(r.pos) ELSE selection
    /\ UNCHANGED <<text, markPos, clipboard>>
    /\ SearchUnchanged

MoveByOffset(cmd) ==
    /\ Move(MoveByOffsetTarget(text, getCursor, LineDelta(cmd), ChDelta(cmd)))
    /\ lastOp' = Op("moveByOffset", cmd)

MoveToLinePosition(position) ==
    /\ Move([moved |-> TRUE, pos |-> LinePositionTarget(text, getCursor, position)])
    /\ lastOp' = Op("moveToLinePosition", position)

MoveToBufferPosition(position) ==
    /\ Move([moved |-> TRUE, pos |-> BufferPositionTarget(text, position)])
    /\ lastOp' = Op("moveToBufferPosition", position)

ForwardWord ==
    /\ Move(ForwardWordFrom(text, getCursor, FALSE))
    /\ lastOp' = Op("forwardWord", "none")

\* the history variable also records that the call came right after forwardWord
BackwardWord ==
    /\ Move(BackwardWordFrom(text, getCursor, FALSE))
    /\ lastOp' = Op("backwardWord",
                    IF lastOp.name = "forwardWord" THEN "afterForwardWord" ELSE "none")

\* a copyRegion that leaves the mark set
CopyRegionKeepsMark(ok) ==
    /\ IF markPos = NullPos
       THEN ok /\ Untouched
       ELSE IF ~ok THEN Untouched
       ELSE /\ clipboard' = getRange(text, markPos, getCursor)
            /\ UNCHANGED <<text, selection, markPos>>
    /\ lastOp' = Op("copyRegion", IF ok THEN "ok" ELSE "failed")
    /\ SearchUnchanged

\* copyRegion; ok is whether navigator.clipboard.writeText resolves or rejects
CopyRegion(ok) ==
    /\ IF markPos = NullPos
       THEN ok /\ Untouched
       ELSE IF ~ok THEN Untouched
       ELSE /\ clipboard' = getRange(text, markPos, getCursor)
            /\ markPos' = NullPos
            /\ selection' = setCursor(getCursor)
            /\ UNCHANGED text
    /\ lastOp' = Op("copyRegion", IF ok THEN "ok" ELSE "failed")
    /\ SearchUnchanged

\* a killRegion that deletes from the start of the buffer up to the cursor
KillRegionFromBufferStart(ok) ==
    /\ IF markPos = NullPos
       THEN ok /\ Untouched
       ELSE IF ~ok THEN Untouched
       ELSE /\ clipboard' = getRange(text, markPos, getCursor)
            /\ text' = replaceRange(text, <<>>, [line |-> 0, ch |-> 0], getCursor)
            /\ selection' = SelectionAfterDelete(text, selection,
                                                 [line |-> 0, ch |-> 0], getCursor)
            /\ markPos' = NullPos
    /\ lastOp' = Op("killRegion", IF ok THEN "ok" ELSE "failed")
    /\ SearchUnchanged

\* killRegion
KillRegion(ok) ==
    /\ IF markPos = NullPos
       THEN ok /\ Untouched
       ELSE IF ~ok THEN Untouched
       ELSE /\ clipboard' = getRange(text, markPos, getCursor)
            /\ text' = replaceRange(text, <<>>, markPos, getCursor)
            /\ selection' = SelectionAfterDelete(text, selection, markPos, getCursor)
            /\ markPos' = NullPos
    /\ lastOp' = Op("killRegion", IF ok THEN "ok" ELSE "failed")
    /\ SearchUnchanged

\* a killLine that deletes although the clipboard write was rejected
KillLineIgnoringFailure(ok) ==
    /\ LET span == KillLineSpan(text, getCursor)
       IN  IF ~span.kill
           THEN ok /\ Untouched
           ELSE /\ clipboard' = IF ok THEN span.copied ELSE clipboard
                /\ text' = replaceRange(text, <<>>, getCursor, span.end)
                /\ selection' = SelectionAfterDelete(text, selection, getCursor, span.end)
                /\ UNCHANGED markPos
    /\ lastOp' = Op("killLine", IF ok THEN "ok" ELSE "failed")
    /\ SearchUnchanged

\* killLine
KillLine(ok) ==
    /\ LET span == KillLineSpan(text, getCursor)
       IN  IF ~span.kill
           THEN ok /\ Untouched
           ELSE IF ~ok THEN Untouched
           ELSE /\ clipboard' = span.copied
                /\ text' = replaceRange(text, <<>>, getCursor, span.end)
                /\ selection' = SelectionAfterDelete(text, selection, getCursor, span.end)
                /\ UNCHANGED markPos
    /\ lastOp' = Op("killLine", IF ok THEN "ok" ELSE "failed")
    /\ SearchUnchanged

\* killWord
KillWord(ok) ==
    /\ LET span == KillWordSpan(text, getCursor)
       IN  IF ~span.kill
           THEN ok /\ Untouched
           ELSE IF ~ok THEN Untouched
           ELSE /\ clipboard' = getRange(text, getCursor, span.end)
                /\ text' = replaceRange(text, <<>>, getCursor, span.end)
                /\ selection' = SelectionAfterDelete(text, selection, getCursor, span.end)
                /\ UNCHANGED markPos
    /\ lastOp' = Op("killWord", IF ok THEN "ok" ELSE "failed")
    /\ SearchUnchanged

\* backwardKillWord
BackwardKillWord(ok) ==
    /\ LET span == BackwardKillWordSpan(text, getCursor)
       IN  IF ~span.kill
           THEN ok /\ Untouched
           ELSE IF ~ok THEN Untouched
           ELSE /\ clipboard' = getRange(text, span.start, getCursor)
                /\ text' = replaceRange(text, <<>>, span.start, getCursor)
                /\ selection' = SelectionAfterDelete(text, selection, span.start, getCursor)
                /\ UNCHANGED markPos
    /\ lastOp' = Op("backwardKillWord", IF ok THEN "ok" ELSE "failed")
    /\ SearchUnchanged

\* a yank that inserts at the cursor and keeps the selected text
YankKeepsSelection(ok) ==
    /\ IF ~ok THEN Untouched
       ELSE /\ Len(text) + Len(clipboard) <= MaxMarkBufLen
            /\ text' = replaceSelection(text, setCursor(getCursor), clipboard)
            /\ selection' = SelectionAfterReplace(text, setCursor(getCursor), clipboard)
            /\ UNCHANGED <<markPos, clipboard>>
    /\ lastOp' = Op("yank", IF ok THEN "ok" ELSE "failed")
    /\ SearchUnchanged

\* yank; ok is whether navigator.clipboard.readText resolves or rejects.  The
\* buffer is kept within the bound of the model.
Yank(ok) ==
    /\ IF ~ok THEN Untouched
       ELSE /\ Len(replaceSelection(text, selection, clipboard)) <= MaxMarkBufLen
            /\ text' = replaceSelection(text, selection, clipboard)
            /\ selection' = SelectionAfterReplace(text, selection, clipboard)
            /\ UNCHANGED <<markPos, clipboard>>
    /\ lastOp' = Op("yank", IF ok THEN "ok" ELSE "failed")
    /\ SearchUnchanged

InitMark ==
    /\ text \in MarkBuffers
    /\ \E p \in ValidPositions(text) : selection = setCursor(p)
    /\ searchState = IdleState
    /\ minibufferEl = FALSE
    /\ inputValue = <<>>
    /\ label = ""
    /\ decorations = <<>>
    /\ markPos = NullPos
    /\ clipboard \in InitClipboards
    /\ pending = NoPending
    /\ lastOp = Op("init", "none")

NextMark ==
    \/ SetMark
    \/ KeyboardQuit
    \/ \E cmd \in MovementCommands : MoveByOffset(cmd)
    \/ \E position \in {"beginning", "end"} : MoveToLinePosition(position)
    \/ \E position \in {"beginning", "end"} : MoveToBufferPosition(position)
    \/ ForwardWord
    \/ BackwardWord
    \/ \E ok \in BOOLEAN : CopyRegion(ok)
    \/ \E ok \in BOOLEAN : KillRegion(ok)
    \/ \E ok \in BOOLEAN : KillLine(ok)
    \/ \E ok \in BOOLEAN : KillWord(ok)
    \/ \E ok \in BOOLEAN : BackwardKillWord(ok)
    \/ \E ok \in BOOLEAN : Yank(ok)

SpecMark == InitMark /\ [][NextMark]_vars

-----------------------------------------------------------------------------
(* Claims about the mark and navigation engine, checked under SpecMark *)

\* C12: after every setMark call the mark is set and equals the cursor
\* position at that call (so a second call in a row never clears it).
C12_SetMarkUnconditional ==
    [][lastOp'.name = "setMark" => markPos' = getCursor]_vars

MovementOps ==
    {"moveByOffset", "moveToLinePosition", "moveToBufferPosition",
     "forwardWord", "backwardWord"}

\* the step is a movement operation that moved the cursor
MovedCursor == lastOp'.name \in MovementOps /\ selection'.head # selection.head

\* C13: while the mark is set, a movement operation that moves the cursor
\* leaves the selection spanning from the mark to the new cursor position and
\* leaves the mark unchanged.
C13_MovementExtendsFromMark ==
    [][(MovedCursor /\ markPos # NullPos)
        => (selection'.anchor = markPos /\ markPos' = markPos)]_vars

\* C14: with the mark unset, a movement operation that moves the cursor leaves
\* a zero-width selection.
C14_MovementCollapsed ==
    [][(MovedCursor /\ markPos = NullPos)
        => (selection'.anchor = selection'.head /\ markPos' = NullPos)]_vars

\* forward-char from (0,0) to (0,1) in the middle of a line, mark unset
C14_Witness ==
    /\ text = <<"a", "a", "a">>
    /\ lastOp = Op("moveByOffset", "forward-char")
    /\ markPos = NullPos
    /\ selection = setCursor([line |-> 0, ch |-> 1])

\* C15: clearMark leaves the mark unset and the selection collapsed at the
\* cursor, with the buffer and the cursor position unchanged.
C15_ClearMark ==
    [][lastOp'.name = "clearMark"
        => /\ markPos' = NullPos
           /\ selection'.anchor = selection.head
           /\ selection'.head = selection.head
           /\ text' = text]_vars

\* clearMark has run away from the start of a buffer of two lines
C15_Witness ==
    /\ lastOp.name = "clearMark"
    /\ markPos = NullPos
    /\ lineCount(text) = 2
    /\ selection = setCursor([line |-> 1, ch |-> 1])

\* C16: moveByOffset leaves cursor, selection and mark unchanged when the
\* target line is outside the buffer, and otherwise moves to that line with
\* the column clamped into the line.
C16_MoveByOffset ==
    [][lastOp'.name = "moveByOffset"
        => LET newLine == selection.head.line + LineDelta(lastOp'.arg)
               newCh == selection.head.ch + ChDelta(lastOp'.arg)
           IN  IF newLine < 0 \/ newLine >= Cardinality(NLIndices(text)) + 1
               THEN selection' = selection /\ markPos' = markPos
               ELSE /\ selection'.head.line = newLine
                    /\ selection'.head.ch >= 0
                    /\ selection'.head.ch <= LineLength(text, newLine)
                    /\ \/ selection'.head.ch = newCh
                       \/ newCh < 0 /\ selection'.head.ch = 0
                       \/ /\ newCh > LineLength(text, newLine)
                          /\ selection'.head.ch = LineLength(text, newLine)]_vars

\* previous-line absorbed on the first line: the cursor is still at (0,1),
\* where no previous-line from the second line would have put it
C16_Witness ==
    /\ text = <<"a", "a", NL>>
    /\ lastOp = Op("moveByOffset", "previous-line")
    /\ selection.head = [line |-> 0, ch |-> 1]

\* the offsets of the region's two ends, as the host places mark and cursor
RegionLow == Min(posToOffset(text, markPos), posToOffset(text, selection.head))

RegionHigh == Max(posToOffset(text, markPos), posToOffset(text, selection.head))

\* the step is the named clipboard command, and its clipboard write succeeded
Succeeded(name) == lastOp' = Op(name, "ok")

\* C17: copyRegion does nothing when the mark is unset; when it is set, the
\* clipboard receives the buffer text between mark and cursor whichever comes
\* first, the buffer is unchanged and the mark ends unset.
C17_CopyRegion ==
    [][Succeeded("copyRegion")
        => IF markPos = NullPos
           THEN UNCHANGED <<text, selection, markPos, clipboard>>
           ELSE /\ clipboard' = SubSeq(text, RegionLow + 1, RegionHigh)
                /\ text' = text
                /\ markPos' = NullPos]_vars

\* the region "a_" was copied with the cursor before the mark
C17_Witness ==
    /\ lastOp = Op("copyRegion", "ok")
    /\ text = <<"a", "_", "a">>
    /\ clipboard = <<"a", "_">>
    /\ selection.head = [line |-> 0, ch |-> 0]
    /\ markPos = NullPos

\* C18: killRegion does nothing when the mark is unset; when it is set, the
\* clipboard receives the buffer text between mark and cursor, exactly that
\* range is removed from the buffer and the mark ends unset.
C18_KillRegion ==
    [][Succeeded("killRegion")
        => IF markPos = NullPos
           THEN UNCHANGED <<text, selection, markPos, clipboard>>
           ELSE /\ clipboard' = SubSeq(text, RegionLow + 1, RegionHigh)
                /\ text' = SubSeq(text, 1, RegionLow)
                             \o SubSeq(text, RegionHigh + 1, Len(text))
                /\ markPos' = NullPos]_vars

\* the region made of an underscore and a newline was killed, "a" is left
C18_Witness ==
    /\ lastOp = Op("killRegion", "ok")
    /\ clipboard = <<"_", NL>>
    /\ text = <<"a">>
    /\ markPos = NullPos

\* offset of the cursor in the buffer, and of the end of the cursor's line
CursorOffset == LineFrom(text, selection.head.line) + selection.head.ch

CursorLineEnd == LineTo(text, selection.head.line)

\* C19: killLine with the cursor before the end of its line deletes the text
\* from the cursor to the end of the line, keeps the newline and the other
\* lines, and leaves the deleted text on the clipboard.
C19_KillLinePartial ==
    [][(Succeeded("killLine") /\ CursorOffset < CursorLineEnd)
        => /\ text' = SubSeq(text, 1, CursorOffset)
                        \o SubSeq(text, CursorLineEnd + 1, Len(text))
           /\ clipboard' = SubSeq(text, CursorOffset + 1, CursorLineEnd)
           /\ Cardinality(NLIndices(text')) = Cardinality(NLIndices(text))]_vars

\* "_" was killed from the end of the first line, the newline stayed
C19_Witness ==
    /\ lastOp = Op("killLine", "ok")
    /\ text = <<"a", NL>>
    /\ clipboard = <<"_">>
    /\ selection.head = [line |-> 0, ch |-> 1]

\* C20: killLine with the cursor at the end of a line that has a next line
\* deletes the newline joining the two lines: the line count drops by one,
\* the next line's text follows the cursor's line, and the clipboard holds
\* the newline.
C20_KillLineJoin ==
    [][(/\ Succeeded("killLine")
        /\ CursorOffset = CursorLineEnd
        /\ selection.head.line < Cardinality(NLIndices(text)))
        => /\ text[CursorOffset + 1] = NL
           /\ text' = SubSeq(text, 1, CursorOffset)
                        \o SubSeq(text, CursorOffset + 2, Len(text))
           /\ clipboard' = <<NL>>
           /\ Cardinality(NLIndices(text')) = Cardinality(NLIndices(text)) - 1]_vars

\* the lines "a" and "_" were joined at the cursor
C20_Witness ==
    /\ lastOp = Op("killLine", "ok")
    /\ text = <<"a", "_">>
    /\ clipboard = <<NL>>
    /\ selection.head = [line |-> 0, ch |-> 1]

-----------------------------------------------------------------------------
(* The two engines together: buffer-changing commands during a search session *)

\* buffers without a character whose lowercase form is longer than itself
StaleChars == {"a", NL}

MaxStaleBufLen == 2
StaleBuffers == BoundedSeq(StaleChars, MaxStaleBufLen)

InitStale ==
    /\ text \in StaleBuffers
    /\ \E p \in ValidPositions(text) : selection = setCursor(p)
    /\ searchState = IdleState
    /\ minibufferEl = FALSE
    /\ inputValue = <<>>
    /\ label = ""
    /\ decorations = <<>>
    /\ markPos = NullPos
    /\ clipboard \in InitClipboards
    /\ pending = NoPending
    /\ lastOp = Op("init", "none")

\* queries typed during the session
StaleQueries == {q \in Queries : \A k \in 1..Len(q) : q[k] = "a"}

\* yank, with the buffer kept within the bound of this specification
YankBounded(ok) == Yank(ok) /\ Len(text') <= MaxStaleBufLen

\* the session's operations together with the commands of main.ts that run
\* whatever the state of the session
NextStale ==
    \/ \E d \in Directions : StartSearch(d)
    \/ \E q \in StaleQueries : OnQueryChanged(q)
    \/ \E d \in Directions : SearchNext(d)
    \/ KeydownEscape
    \/ KeydownEnter
    \/ KeyboardQuit
    \/ SetMark
    \/ \E ok \in BOOLEAN : KillRegion(ok)
    \/ \E ok \in BOOLEAN : KillLine(ok)
    \/ \E ok \in BOOLEAN : YankBounded(ok)

SpecStale == InitStale /\ [][NextStale]_vars

\* C11: while a session is active, every entry of matches is an occurrence of
\* the live query in the current buffer content, also after killLine,
\* killRegion or yank ran during the session.
C11_MatchesNeverStale ==
    searchState.active =>
        \A i \in 1..Len(searchState.matches) :
            /\ searchState.matches[i].to = searchState.matches[i].from + Len(inputValue)
            /\ searchState.matches[i].from \in SmartCaseOccurrences(text, inputValue)

-----------------------------------------------------------------------------
(* killLine called again and again, no other command *)

NextKillLine == \E ok \in BOOLEAN : KillLine(ok)

\* a call whose clipboard write succeeds is made again and again
SpecKillLine == InitMark /\ [][NextKillLine]_vars /\ WF_vars(KillLine(TRUE))

\* killLine has nothing to kill: the cursor is on the last line, at its end
AtEndOfBuffer ==
    /\ selection.head.line = Cardinality(NLIndices(text))
    /\ posToOffset(text, selection.head) = Len(text)

-----------------------------------------------------------------------------
(* Claims about the word scans, checked under SpecMark *)

\* the boundary set of the specification: whitespace and underscore
WhitespaceAndUnderscore == {" ", "_", NL}

IsWordChar(c) == c \notin WhitespaceAndUnderscore

\* the line of the cursor, and the cursor's column in it
CursorLine == SubSeq(text, LineFrom(text, selection.head.line) + 1,
                     LineTo(text, selection.head.line))

CursorCh == selection.head.ch

\* columns at or after the cursor that hold a word character
WordColumnsAhead ==
    {i \in CursorCh..(Len(CursorLine) - 1) : IsWordChar(CursorLine[i + 1])}

\* where the word that holds the cursor, or else the next word of the line, ends
WordEndAhead ==
    LET first == CHOOSE i \in WordColumnsAhead : \A j \in WordColumnsAhead : i <= j
        ends == {j \in (first + 1)..Len(CursorLine) :
                    j = Len(CursorLine) \/ ~IsWordChar(CursorLine[j + 1])}
    IN  CHOOSE j \in ends : \A k \in ends : j <= k

\* C22: forwardWord from inside a word moves to the end of that word, and from
\* boundary characters moves to the end of the next word of the line; word
\* characters are the characters that are neither whitespace nor underscore.
C22_ForwardWordOnLine ==
    [][(lastOp'.name = "forwardWord" /\ WordColumnsAhead # {})
        => /\ selection'.head = [line |-> selection.head.line, ch |-> WordEndAhead]
           /\ text' = text]_vars

\* forwardWord went from the start of "a_a" to the end of its first word
C22_Witness ==
    /\ lastOp.name = "forwardWord"
    /\ text = <<"a", "_", "a">>
    /\ selection.head = [line |-> 0, ch |-> 1]

\* the start of the last word that begins before column ch of line l, looked
\* for on the lines above when the line has none
RECURSIVE PrevWordStart(_, _, _)
PrevWordStart(s, l, ch) ==
    LET line == SubSeq(s, LineFrom(s, l) + 1, LineTo(s, l))
        cols == {i \in 0..(ch - 1) : IsWordChar(line[i + 1])}
    IN  IF cols # {}
        THEN LET last == CHOOSE i \in cols : \A j \in cols : i >= j
                 starts == {j \in 0..last :
                              \A k \in j..last : IsWordChar(line[k + 1])}
             IN  [line |-> l, ch |-> CHOOSE j \in starts : \A k \in starts : j <= k]
        ELSE IF l > 0 THEN PrevWordStart(s, l - 1, LineLength(s, l - 1))
        ELSE [line |-> 0, ch |-> ch]

\* a word character lies before the cursor, or after it, somewhere in the buffer
WordBeforeCursor ==
    \E i \in 1..posToOffset(text, selection.head) : IsWordChar(text[i])

WordAfterCursor ==
    \E i \in (posToOffset(text, selection.head) + 1)..Len(text) : IsWordChar(text[i])

\* C23: backwardWord from inside or after a word moves to the start of that
\* word, from the start of a word to the start of the previous word, and when
\* only boundary characters precede the cursor on its line it goes on from the
\* end of the previous line.
C23_BackwardWord ==
    [][(lastOp'.name = "backwardWord" /\ WordBeforeCursor)
        => /\ selection'.head = PrevWordStart(text, selection.head.line, CursorCh)
           /\ text' = text]_vars

\* backwardWord went from the end of "a_a" to the start of its last word
C23_Witness ==
    /\ lastOp.name = "backwardWord"
    /\ text = <<"a", "_", "a">>
    /\ selection.head = [line |-> 0, ch |-> 2]

\* C24: forwardWord with no word character between the cursor and the end of
\* the buffer, and backwardWord with none between the start of the buffer and
\* the cursor, leave cursor, selection and buffer unchanged.
C24_WordScanAbsorbed ==
    [][(\/ lastOp'.name = "forwardWord" /\ ~WordAfterCursor
        \/ lastOp'.name = "backwardWord" /\ ~WordBeforeCursor)
        => (selection' = selection /\ text' = text)]_vars

\* C25: killWord deletes and copies the span from the cursor to the position
\* forwardWord would move the cursor to, and does nothing exactly when
\* forwardWord does nothing.
C25_KillWordAsForwardWord ==
    [][lastOp' = Op("killWord", "ok")
        => LET target == ForwardWordFrom(text, selection.head, FALSE)
               lo == posToOffset(text, selection.head)
               hi == posToOffset(text, target.pos)
           IN  IF ~target.moved
               THEN UNCHANGED <<text, selection, clipboard>>
               ELSE /\ text' = SubSeq(text, 1, lo) \o SubSeq(text, hi + 1, Len(text))
                    /\ clipboard' = SubSeq(text, lo + 1, hi)]_vars

\* C26: backwardKillWord deletes and copies the span from the position
\* backwardWord would move the cursor to, up to the cursor, and does nothing
\* exactly when backwardWord does nothing.
C26_BackwardKillWordAsBackwardWord ==
    [][lastOp' = Op("backwardKillWord", "ok")
        => LET target == BackwardWordFrom(text, selection.head, FALSE)
               lo == posToOffset(text, target.pos)
               hi == posToOffset(text, selection.head)
           IN  IF ~target.moved
               THEN UNCHANGED <<text, selection, clipboard>>
               ELSE /\ text' = SubSeq(text, 1, lo) \o SubSeq(text, hi + 1, Len(text))
                    /\ clipboard' = SubSeq(text, lo + 1, hi)]_vars

\* where the cursor ends when forwardWord and then backwardWord are called
RoundTripEnd ==
    BackwardWordFrom(text, ForwardWordFrom(text, selection.head, FALSE).pos, FALSE).pos

BufferHasWord == \E i \in 1..Len(text) : IsWordChar(text[i])

\* offset of the start of the run of word characters that holds offset k
WordStartAt(k) ==
    LET starts == {j \in 0..k : \A i \in j..k : IsWordChar(text[i + 1])}
    IN  CHOOSE j \in starts : \A i \in starts : j <= i

\* offset of the start of the cursor's word: the word that holds the cursor,
\* else the next word of the buffer, else the last word before the cursor
CursorWordStart ==
    LET off == posToOffset(text, selection.head)
        ahead == {k \in off..(Len(text) - 1) : IsWordChar(text[k + 1])}
        behind == {k \in 0..(off - 1) : IsWordChar(text[k + 1])}
    IN  IF ahead # {}
        THEN WordStartAt(CHOOSE k \in ahead : \A i \in ahead : k <= i)
        ELSE WordStartAt(CHOOSE k \in behind : \A i \in behind : k >= i)

-----------------------------------------------------------------------------
(* Claims about yank and about rejected clipboard writes, checked under SpecMark *)

\* C28: yank inserts the clipboard text at the cursor when the selection is
\* empty and puts it in place of the selected range otherwise; the buffer
\* outside the replaced range is unchanged.
C28_Yank ==
    [][lastOp' = Op("yank", "ok")
        => LET a == posToOffset(text, selection.anchor)
               h == posToOffset(text, selection.head)
           IN  text' = SubSeq(text, 1, Min(a, h)) \o clipboard
                         \o SubSeq(text, Max(a, h) + 1, Len(text))]_vars

\* "a" was yanked over a selection that reached into a second line: the mark
\* set there is still (1,0)
C28_Witness ==
    /\ lastOp = Op("yank", "ok")
    /\ text = <<"a">>
    /\ clipboard = <<"a">>
    /\ markPos = [line |-> 1, ch |-> 0]
    /\ selection.head = [line |-> 0, ch |-> 1]

\* the commands that write to the clipboard
ClipboardWriters ==
    {"copyRegion", "killRegion", "killLine", "killWord", "backwardKillWord"}

\* C30: a command whose clipboard write is rejected ends failed, in one
\* attempt, with buffer, cursor, selection and mark as they were before it.
C30_FailedWriteChangesNothing ==
    [][(lastOp'.name \in ClipboardWriters /\ lastOp'.arg = "failed")
        => UNCHANGED <<text, selection, markPos, clipboard>>]_vars

\* killRegion failed on a region that is not empty: the mark is still set and
\* the region still selected
C30_Witness ==
    /\ lastOp = Op("killRegion", "failed")
    /\ markPos # NullPos
    /\ selection.anchor = markPos
    /\ selection.anchor # selection.head

-----------------------------------------------------------------------------
(* The kill commands as they run: suspended at the await, resumed when the
   clipboard write settles, with the editor free to run commands in between *)

\* killRegion up to `await navigator.clipboard.writeText(text)`
KillRegionCall ==
    /\ pending.cmd = "none"
    /\ IF markPos = NullPos
       THEN /\ lastOp' = Op("killRegion", "ok")
            /\ UNCHANGED pending
       ELSE /\ pending' = [cmd |-> "killRegion",
                           text |-> getRange(text, markPos, getCursor),
                           cursor |-> NullPos, end |-> NullPos]
            /\ lastOp' = Op("killRegion", "called")
    /\ Untouched
    /\ UNCHANGED <<searchState, minibufferEl, inputValue, label, decorations>>

\* killLine up to `await navigator.clipboard.writeText(text)`
KillLineCall ==
    /\ pending.cmd = "none"
    /\ LET span == KillLineSpan(text, getCursor)
       IN  IF ~span.kill
           THEN /\ lastOp' = Op("killLine", "ok")
                /\ UNCHANGED pending
           ELSE /\ pending' = [cmd |-> "killLine", text |-> span.copied,
                               cursor |-> getCursor, end |-> span.end]
                /\ lastOp' = Op("killLine", "called")
    /\ Untouched
    /\ UNCHANGED <<searchState, minibufferEl, inputValue, label, decorations>>

\* the write settles and the suspended command resumes: killRegion reads the
\* mark and the cursor again, killLine uses the positions it captured.  With
\* the mark cleared in the meantime replaceRange is handed null and throws.
WriteSettles(ok) ==
    /\ pending.cmd # "none"
    /\ pending' = NoPending
    /\ lastOp' = Op(pending.cmd, IF ok THEN "ok" ELSE "failed")
    /\ IF ~ok THEN Untouched
       ELSE /\ clipboard' = pending.text
            /\ IF pending.cmd = "killRegion"
               THEN IF markPos = NullPos
                    THEN UNCHANGED <<text, selection, markPos>>
                    ELSE /\ text' = replaceRange(text, <<>>, markPos, getCursor)
                         /\ selection' = SelectionAfterDelete(text, selection,
                                                              markPos, getCursor)
                         /\ markPos' = NullPos
               ELSE /\ text' = replaceRange(text, <<>>, pending.cursor, pending.end)
                    /\ selection' = SelectionAfterDelete(text, selection,
                                                         pending.cursor, pending.end)
                    /\ UNCHANGED markPos
    /\ UNCHANGED <<searchState, minibufferEl, inputValue, label, decorations>>

\* commands are dispatched whether or not a kill command is suspended
NextAsync ==
    \/ SetMark
    \/ \E cmd \in MovementCommands : MoveByOffset(cmd)
    \/ KillRegionCall
    \/ KillLineCall
    \/ \E ok \in BOOLEAN : WriteSettles(ok)

SpecAsync == InitMark /\ [][NextAsync]_vars

\* C29: no command changes buffer, cursor or mark while a kill command waits
\* for the clipboard, so the range the kill command removes when it resumes is
\* the range whose text it wrote to the clipboard.
C29_KillRemovesWhatItCopied ==
    [][(pending.cmd # "none" /\ lastOp'.arg = "ok")
        => \E lo \in 0..Len(text) :
              /\ lo + Len(clipboard') <= Len(text)
              /\ SubSeq(text, lo + 1, lo + Len(clipboard')) = clipboard'
              /\ text' = SubSeq(text, 1, lo)
                           \o SubSeq(text, lo + Len(clipboard') + 1, Len(text))]_vars

-----------------------------------------------------------------------------
(* The plugin as the host sees it: the commands onload registers, and the
   events of the search prompt *)

\* the ids onload passes to addCommand
RegisteredCommands ==
    {"beginning-of-buffer", "end-of-buffer", "keyboard-quit", "set-mark",
     "forward-char", "backward-char", "next-line", "previous-line",
     "beginning-of-line", "end-of-line", "kill-region", "kill-line", "yank",
     "isearch-forward", "isearch-backward"}

\* the callback of isearch-forward and of isearch-backward
Isearch(direction) ==
    IF searchState.active THEN SearchNext(direction) ELSE StartSearch(direction)

\* the editorCallback registered under id
Command(id) ==
    \/ id = "beginning-of-buffer" /\ MoveToBufferPosition("beginning")
    \/ id = "end-of-buffer" /\ MoveToBufferPosition("end")
    \/ id = "keyboard-quit" /\ KeyboardQuit
    \/ id = "set-mark" /\ SetMark
    \/ id \in MovementCommands /\ MoveByOffset(id)
    \/ id = "beginning-of-line" /\ MoveToLinePosition("beginning")
    \/ id = "end-of-line" /\ MoveToLinePosition("end")
    \/ id = "kill-region" /\ \E ok \in BOOLEAN : KillRegion(ok)
    \/ id = "kill-line" /\ \E ok \in BOOLEAN : KillLine(ok)
    \/ id = "yank" /\ \E ok \in BOOLEAN : YankBounded(ok)
    \/ id = "isearch-forward" /\ Isearch("forward")
    \/ id = "isearch-backward" /\ Isearch("backward")

\* a plugin just loaded, nothing copied or killed yet
InitCommands == InitStale /\ clipboard = <<>>

\* the queries typed into the prompt: nothing, or one character
CommandQueries == {q \in StaleQueries : Len(q) <= 1}

NextCommands ==
    \/ \E id \in RegisteredCommands : Command(id)
    \/ \E q \in CommandQueries : OnQueryChanged(q)
    \/ KeydownEscape
    \/ KeydownEnter

SpecCommands == InitCommands /\ [][NextCommands]_vars

\* C31: keyboard-quit dispatches on the state of the search. With a session
\* active it cancels the search (the session becomes Idle, the prompt goes, the
\* cursor is put on the anchor, which the host resolves in the current buffer)
\* and the mark stays as it is; with no session it clears the mark and leaves
\* the session alone.
C31_KeyboardQuitDispatch ==
    [][lastOp'.name \in {"cancelSearch", "clearMark"}
        => IF searchState.active
           THEN /\ ~searchState'.active
                /\ searchState'.startPos = NullPos
                /\ searchState'.currentIndex = -1
                /\ searchState'.matches = <<>>
                /\ ~minibufferEl'
                /\ selection' = setCursor(ClampPos(text, searchState.startPos))
                /\ markPos' = markPos
           ELSE /\ markPos' = NullPos
                /\ searchState' = searchState]_vars

\* keyboard-quit has just cancelled a session that found matches, and the mark
\* set before is still set
C31_Witness ==
    /\ lastOp = Op("cancelSearch", "none")
    /\ ~searchState.active
    /\ markPos # NullPos
    /\ selection.anchor = selection.head

\* the names the operations of each engine leave in lastOp
SearchOps == {"startSearch", "onQueryChanged", "searchNext", "exitSearch", "cancelSearch"}

MarkOps ==
    {"setMark", "clearMark", "moveByOffset", "moveToLinePosition",
     "moveToBufferPosition", "forwardWord", "backwardWord", "copyRegion",
     "killRegion", "killLine", "killWord", "backwardKillWord", "yank"}

\* C32: no operation of the search engine changes the mark, and no mark,
\* movement, kill or yank operation changes a field of the search session, its
\* prompt or its highlights.
C32_NoSharedState ==
    [][ /\ lastOp'.name \in SearchOps => markPos' = markPos
        /\ lastOp'.name \in MarkOps
            => /\ searchState' = searchState
               /\ minibufferEl' = minibufferEl
               /\ inputValue' = inputValue
               /\ label' = label
               /\ decorations' = decorations ]_vars

\* a session was started with the mark set, found a match, and kill-line then
\* ran during the session
C32_Witness ==
    /\ lastOp = Op("killLine", "ok")
    /\ searchState.active
    /\ Len(searchState.matches) > 0
    /\ markPos # NullPos

\* C33: besides the commands for the char and line moves, line and buffer
\* begin and end, set-mark, kill-region, kill-line, yank, isearch-forward,
\* isearch-backward and keyboard-quit, the plugin registers commands for
\* forward-word, backward-word, copy-region, kill-word and backward-kill-word:
\* each of these ids has a callback the host can invoke.
DocumentedCommands ==
    RegisteredCommands \cup {"forward-word", "backward-word", "copy-region",
                             "kill-word", "backward-kill-word"}

C33_EveryOperationIsACommand ==
    \A id \in DocumentedCommands : ENABLED Command(id)

-----------------------------------------------------------------------------
(* The word-boundary setting *)

\* the boundary sets a user may configure, by name
BoundarySettings == {"whitespace-and-underscore", "whitespace"}

ConfiguredBoundary(name) ==
    IF name = "whitespace" THEN {" ", NL} ELSE {" ", "_", NL}

\* the user changes the boundary setting: the plugin keeps no setting and has
\* no handler for the change, so nothing it holds changes
Configure(name) ==
    /\ lastOp' = Op("configure", name)
    /\ Untouched
    /\ SearchUnchanged

NextConfig ==
    \/ \E name \in BoundarySettings : Configure(name)
    \/ \E cmd \in MovementCommands : MoveByOffset(cmd)
    \/ ForwardWord
    \/ BackwardWord
    \/ \E ok \in BOOLEAN : KillWord(ok)
    \/ \E ok \in BOOLEAN : BackwardKillWord(ok)

SpecConfig == InitMark /\ [][NextConfig]_vars

\* the columns at or after the cursor that hold a word character of its line,
\* when the characters of boundary delimit words
WordColumnsAheadWith(boundary) ==
    {i \in selection.head.ch..(Len(CursorLine) - 1) : CursorLine[i + 1] \notin boundary}

WordEndAheadWith(boundary) ==
    LET cols == WordColumnsAheadWith(boundary)
        first == CHOOSE i \in cols : \A j \in cols : i <= j
        ends == {j \in (first + 1)..Len(CursorLine) :
                    j = Len(CursorLine) \/ CursorLine[j + 1] \in boundary}
    IN  CHOOSE j \in ends : \A k \in ends : j <= k

\* C34: the scans use the boundary set configured at the time of the scan: a
\* forwardWord that runs right after the setting was changed stops at the end
\* of the next word as the newly configured set delimits it.
C34_ConfiguredBoundary ==
    [][(/\ lastOp.name = "configure"
        /\ lastOp'.name = "forwardWord"
        /\ WordColumnsAheadWith(ConfiguredBoundary(lastOp.arg)) # {})
        => selection'.head =
              [line |-> selection.head.line,
               ch |-> WordEndAheadWith(ConfiguredBoundary(lastOp.arg))]]_vars

-----------------------------------------------------------------------------
(* The highlights, the anchor and the label of a session *)

\* C35: the highlights are those of the session as it now is. None when the
\* session is inactive or has no match; otherwise one per match, in order, the
\* match at currentIndex tagged as the current match and every other match as
\* a plain match.
C35_HighlightsFollowState ==
    IF ~searchState.active \/ Len(searchState.matches) = 0
    THEN decorations = <<>>
    ELSE /\ Len(decorations) = Len(searchState.matches)
         /\ searchState.currentIndex \in 0..(Len(searchState.matches) - 1)
         /\ \A i \in 1..Len(decorations) :
               /\ decorations[i].from = searchState.matches[i].from
               /\ decorations[i].to = searchState.matches[i].to
               /\ decorations[i].class =
                     IF i = searchState.currentIndex + 1
                     THEN "search-highlight-current" ELSE "search-highlight"

\* searchNext has moved the current match of a session with two matches
C35_Witness ==
    /\ lastOp.name = "searchNext"
    /\ searchState.active
    /\ Len(searchState.matches) = 2
    /\ searchState.currentIndex = 1
    /\ decorations[2].class = "search-highlight-current"

\* C36: while a session lasts its anchor and its direction stay what
\* startSearch made them, searchNext leaves the match list alone, and a change
\* of the query that finds matches selects the one nearest that anchor in that
\* direction.
C36_AnchorAndDirectionFixed ==
    [][(searchState.active /\ searchState'.active)
        => /\ searchState'.startPos = searchState.startPos
           /\ searchState'.direction = searchState.direction
           /\ lastOp'.name = "searchNext"
                 => searchState'.matches = searchState.matches
           /\ (lastOp'.name = "onQueryChanged" /\ Len(searchState'.matches) > 0)
                 => searchState'.currentIndex =
                       findNearestMatch(searchState'.matches,
                                        posToOffset(text, searchState.startPos),
                                        searchState.direction)]_vars

\* isearch-backward was invoked during a forward session that has matches
C36_Witness ==
    /\ lastOp = Op("searchNext", "backward")
    /\ searchState.active
    /\ searchState.direction = "forward"
    /\ Len(searchState.matches) > 0

\* what the prompt shows after a forward search failed
ForwardFailedLabel == "(failed) I-search:"

\* the live query is not empty and has no match
QueryFails == inputValue # <<>> /\ Len(searchState.matches) = 0

\* C37: the label of the prompt shows the failure exactly when the live query
\* is not empty and has no match. When the query finds matches again, or is
\* emptied, the label is the direction label of the session; and the label of
\* a failure in a backward session is not that of a forward one.
C37_LabelShowsFailure ==
    (searchState.active /\ minibufferEl)
        => IF QueryFails
           THEN IF searchState.direction = "forward"
                THEN label = ForwardFailedLabel
                ELSE label \notin {ForwardFailedLabel, DirectionLabel("forward"),
                                   DirectionLabel("backward")}
           ELSE label = DirectionLabel(searchState.direction)

\* the label once the query of a forward session finds matches again
C37_LabelReturns ==
    (searchState.active /\ minibufferEl /\ searchState.direction = "forward"
        /\ ~QueryFails)
        => label = DirectionLabel("forward")

-----------------------------------------------------------------------------
(* The mark after edits *)

\* C38: whenever the mark is set it is a position of the current buffer: its
\* line is below lineCount and its column is at most the length of that line.
C38_MarkIsValidPosition ==
    markPos # NullPos => ValidPos(text, markPos)

-----------------------------------------------------------------------------
(* Kill, then yank *)

KillOps == {"killRegion", "killLine", "killWord", "backwardKillWord"}

\* a kill command has just removed a range of the buffer
KillRemoved == lastOp'.name \in KillOps /\ lastOp'.arg = "ok" /\ text' # text

\* the buffer a yank leaves when it runs in the state the step leads to
YankedNext == replaceSelection(text', selection', clipboard')

\* C39: when killRegion, killLine, killWord or backwardKillWord has removed a
\* range, a yank that runs next, the clipboard untouched, gives back the
\* buffer content of before the kill.
C39_KillThenYank ==
    [][KillRemoved => YankedNext = text]_vars

\* the same, for kills made while no text is selected
C39_KillThenYankNoSelection ==
    [][(KillRemoved /\ selection.anchor = selection.head) => YankedNext = text]_vars

-----------------------------------------------------------------------------
(* The depth of the recursive word scans *)

\* a forwardWord that first goes to the end of the line it found no word on
RECURSIVE ForwardWordCallsViaLineEnd(_, _)
ForwardWordCallsViaLineEnd(s, cursor) ==
    LET line == getLine(s, cursor.line)
        restOfLine == SubSeq(line, cursor.ch + 1, Len(line))
        match == NextWordMatch(restOfLine)
    IN  IF match.found THEN <<cursor>>
        ELSE IF cursor.ch < Len(line)
        THEN <<cursor>> \o ForwardWordCallsViaLineEnd(s,
                               [line |-> cursor.line, ch |-> Len(line)])
        ELSE IF cursor.line < lineCount(s) - 1
        THEN <<cursor>> \o ForwardWordCallsViaLineEnd(s,
                               [line |-> cursor.line + 1, ch |-> 0])
        ELSE <<cursor>>

\* the cursor positions forwardWord is entered with, the outermost call first
RECURSIVE ForwardWordCalls(_, _)
ForwardWordCalls(s, cursor) ==
    LET line == getLine(s, cursor.line)
        restOfLine == SubSeq(line, cursor.ch + 1, Len(line))
        match == NextWordMatch(restOfLine)
    IN  IF match.found THEN <<cursor>>
        ELSE IF cursor.line < lineCount(s) - 1
        THEN <<cursor>> \o ForwardWordCalls(s, [line |-> cursor.line + 1, ch |-> 0])
        ELSE <<cursor>>

\* the cursor positions backwardWord is entered with, the outermost call first
RECURSIVE BackwardWordCalls(_, _)
BackwardWordCalls(s, cursor) ==
    LET line == getLine(s, cursor.line)
        beforeCursor == SubSeq(line, 1, cursor.ch)
        words == AllWords(beforeCursor, 0)
    IN  IF Len(words) > 0 THEN <<cursor>>
        ELSE IF cursor.line > 0
        THEN <<cursor>> \o BackwardWordCalls(s,
                               [line |-> cursor.line - 1,
                                ch |-> LineLength(s, cursor.line - 1)])
        ELSE <<cursor>>

\* calls is no deeper than the buffer has lines, and each call is one line
\* further, in the direction delta, than the call that made it
OneLinePerCall(calls, delta) ==
    /\ Len(calls) <= lineCount(text)
    /\ \A i \in 1..(Len(calls) - 1) : calls[i + 1].line = calls[i].line + delta

\* C40: forwardWord and backwardWord end, whatever the buffer and the cursor:
\* each recursive call is made one line nearer the end (forwardWord) or the
\* start (backwardWord) of the buffer, so the calls are never nested deeper
\* than the buffer has lines, and the cursor ends on the line of the last call.
C40_WordScanDepth ==
    [][ /\ lastOp'.name = "forwardWord"
            => LET calls == ForwardWordCalls(text, getCursor)
               IN  /\ OneLinePerCall(calls, 1)
                   /\ selection'.head.line = calls[Len(calls)].line
        /\ lastOp'.name = "backwardWord"
            => LET calls == BackwardWordCalls(text, getCursor)
               IN  /\ OneLinePerCall(calls, -1)
                   /\ selection'.head.line = calls[Len(calls)].line ]_vars

\* forwardWord has gone through the three lines of a buffer without a word,
\* the mark still on the first line
C40_Witness ==
    /\ lastOp.name = "forwardWord"
    /\ text = <<NL, NL>>
    /\ markPos = [line |-> 0, ch |-> 0]
    /\ selection = [anchor |-> [line |-> 0, ch |-> 0], head |-> [line |-> 2, ch |-> 0]]

====
